---------------------------- MODULE Spec2Model ----------------------------
(***************************************************************************)
(* State-machine model of the executable cells of the notebooks:           *)
(*   intro_to_algorithms/chapter_1/2_Getting_Started.ipynb                  *)
(*       insertion_sort, merge, merge_sort                                  *)
(*   deep-learning/.../3.2_Object_Oriented_Disign_For_Implementation.ipynb  *)
(*       Module, DataModule, Trainer                                        *)
(* Python lists are sequences; the source's 0-based indices are kept in    *)
(* the variables and translated on access (PyGet, PySet).                  *)
(***************************************************************************)
EXTENDS Integers, Sequences, FiniteSets, Bags, TLC

VARIABLES
    A,        \* contents of the list object bound to the name A
    A0,       \* contents of A when the top-level call was made
    call,     \* arguments of the top-level call
    ret,      \* value returned by the top-level call: "unset", "A" or "None"
    exc,      \* exception that ended the top-level call, "none" if none
    nalloc,   \* number of list objects allocated since the top-level call
    pc,       \* position of the running function
    i, j, k, key,             \* locals of insertion_sort / merge
    L, R, n1, n2, p, q, r,    \* parameters and locals of merge
    Ain,      \* contents of A when merge was entered
    taken,    \* for each write of merge's main loop, the side and index read
    stack,    \* activation records of merge_sort, innermost last
    obj,      \* attributes of the Trainer, Module and DataModule instances
    obj0,     \* obj when the top-level call was made
    impl,     \* the abstract methods that the instances' classes override
    env,      \* what the overriding get_dataloader returns
    it,       \* iterator of the for loop of Trainer.fit
    epochs,   \* self.epoch at each call of fit_epoch made by fit, in order
    delegated,\* the call a delegating method made, <<>> if none
    raisedAt, \* position of Trainer.fit at which an exception was raised
    classDict,  \* attributes of the class A of the add_to_class cells
    instances,  \* attribute dictionary of each instance of A, in creation order
    born,       \* for each instance, the number of registrations made before it
    registered, \* for each registered __name__, the function and when it was registered
    result,     \* the last method call on an instance and its outcome
    frame,      \* local variables of the __init__ that calls save_hyperparameters
    ignore,     \* the ignore argument of save_hyperparameters
    self,       \* attribute dictionary of the instance being initialised
    todo        \* items of self.hparams that the setattr loop has yet to visit

sortVars == <<A, A0, call, ret, exc, nalloc, pc, i, j, k, key,
              L, R, n1, n2, p, q, r, Ain, taken, stack>>

ooVars == <<obj, obj0, impl, env, it, epochs, delegated, raisedAt>>

utilVars == <<classDict, instances, born, registered, result, frame, ignore, self, todo>>

vars == <<sortVars, ooVars, utilVars>>

---------------------------------------------------------------------------
(* Bounds of the input domain *)

MaxLen == 4
MaxVal == 2

Vals == 0..MaxVal

ListsUpTo(n) == UNION {[1..m -> Vals] : m \in 0..n}

(* The inputs of the notebook's example cells *)
ExampleInsertion == <<5, 2, 4, 6, 1, 3>>
ExampleMerge == <<1, 2, 3, 4, 2, 3, 4, 5>>
ExampleMergeSort == <<10, 9, 8, 7, 6, 5, 4, 3, 2, 1>>

Range(s) == {s[x] : x \in DOMAIN s}

SetMax(S) == CHOOSE m \in S : \A x \in S : x <= m

(* float('inf'): compares above every int.  It is represented by an       *)
(* integer above every element of the input domain.                        *)
Inf == 1 + SetMax(Vals \cup Range(ExampleInsertion) \cup Range(ExampleMerge)
                       \cup Range(ExampleMergeSort))

---------------------------------------------------------------------------
(* Python list access *)

PyIdx(a, n) == IF n < 0 THEN n + Len(a) ELSE n

PyInRange(a, n) == PyIdx(a, n) >= 0 /\ PyIdx(a, n) < Len(a)

PyGet(a, n) == a[PyIdx(a, n) + 1]

PySet(a, n, v) == [a EXCEPT ![PyIdx(a, n) + 1] = v]

\* the sorting notebook creates none of the objects of the other notebook
NoObjects ==
    /\ obj = <<>> /\ obj0 = <<>>
    /\ impl = {} /\ env = <<>> /\ it = <<>>
    /\ epochs = <<>> /\ delegated = <<>> /\ raisedAt = "none"

\* no class A, no instance of it and no __init__ frame exist
NoUtilities ==
    /\ classDict = <<>> /\ instances = <<>> /\ born = <<>>
    /\ registered = <<>> /\ result = [exc |-> "no call"]
    /\ frame = <<>> /\ ignore = <<>> /\ self = <<>> /\ todo = <<>>

---------------------------------------------------------------------------
(* Vocabulary of the properties *)

BagOf(s) == [v \in Range(s) |-> Cardinality({x \in DOMAIN s : s[x] = v})]

IsPerm(a, b) == BagOf(a) = BagOf(b)

(* a[lo..hi] (0-based, inclusive) is non-decreasing *)
SortedRange(a, lo, hi) ==
    \A x \in lo..hi : \A y \in lo..hi : x < y => PyGet(a, x) <= PyGet(a, y)

Sorted(a) == SortedRange(a, 0, Len(a) - 1)

(* a[lo..hi] (0-based, inclusive) as a sequence *)
Slice(a, lo, hi) == [x \in 1..(hi - lo + 1) |-> a[lo + x]]

SameOutside(a, b, lo, hi) ==
    /\ Len(a) = Len(b)
    /\ \A x \in 0..(Len(a) - 1) : (x < lo \/ x > hi) => PyGet(a, x) = PyGet(b, x)

---------------------------------------------------------------------------
(* insertion_sort *)

Raise(e) ==
    /\ exc' = e
    /\ pc' = "raised"

\* line 38: for j in range(1, len(A))
ISFor ==
    /\ pc = "is_for"
    /\ IF j + 1 < Len(A)
         THEN j' = j + 1 /\ pc' = "is_key"
         ELSE j' = j /\ pc' = "is_return"
    /\ UNCHANGED <<ooVars, utilVars>>
    /\ UNCHANGED <<A, A0, call, ret, exc, nalloc, i, k, key,
                   L, R, n1, n2, p, q, r, Ain, taken, stack>>

\* line 39: key = A[j]
ISKey ==
    /\ pc = "is_key"
    /\ IF PyInRange(A, j)
         THEN key' = PyGet(A, j) /\ pc' = "is_i" /\ exc' = exc
         ELSE key' = key /\ Raise("IndexError")
    /\ UNCHANGED <<ooVars, utilVars>>
    /\ UNCHANGED <<A, A0, call, ret, nalloc, i, j, k,
                   L, R, n1, n2, p, q, r, Ain, taken, stack>>

\* line 41: i = j - 1
ISInit ==
    /\ pc = "is_i"
    /\ i' = j - 1
    /\ pc' = "is_while"
    /\ UNCHANGED <<ooVars, utilVars>>
    /\ UNCHANGED <<A, A0, call, ret, exc, nalloc, j, k, key,
                   L, R, n1, n2, p, q, r, Ain, taken, stack>>

\* faulty variant of WhileCond: the scan stops before index 0
WhileCondNoZero(a, x, y) == x > 0 /\ PyGet(a, x) > y

\* line 42: i >= 0 and A[i] > key
WhileCond(a, x, y) == x >= 0 /\ PyGet(a, x) > y

ISWhile ==
    /\ pc = "is_while"
    /\ IF i >= 0 /\ ~PyInRange(A, i)
         THEN Raise("IndexError")
         ELSE /\ pc' = IF WhileCond(A, i, key) THEN "is_shift" ELSE "is_place"
              /\ exc' = exc
    /\ UNCHANGED <<ooVars, utilVars>>
    /\ UNCHANGED <<A, A0, call, ret, nalloc, i, j, k, key,
                   L, R, n1, n2, p, q, r, Ain, taken, stack>>

\* line 43: A[i + 1] = A[i]
ISShift ==
    /\ pc = "is_shift"
    /\ IF PyInRange(A, i) /\ PyInRange(A, i + 1)
         THEN A' = PySet(A, i + 1, PyGet(A, i)) /\ pc' = "is_dec" /\ exc' = exc
         ELSE A' = A /\ Raise("IndexError")
    /\ UNCHANGED <<ooVars, utilVars>>
    /\ UNCHANGED <<A0, call, ret, nalloc, i, j, k, key,
                   L, R, n1, n2, p, q, r, Ain, taken, stack>>

\* line 44: i -= 1
ISDec ==
    /\ pc = "is_dec"
    /\ i' = i - 1
    /\ pc' = "is_while"
    /\ UNCHANGED <<ooVars, utilVars>>
    /\ UNCHANGED <<A, A0, call, ret, exc, nalloc, j, k, key,
                   L, R, n1, n2, p, q, r, Ain, taken, stack>>

\* faulty variant of PlaceIndex: the key is stored at A[i]
PlaceIndexAtI(x) == x

\* line 45: the index written by A[i + 1] = key
PlaceIndex(x) == x + 1

ISPlace ==
    /\ pc = "is_place"
    /\ IF PyInRange(A, PlaceIndex(i))
         THEN A' = PySet(A, PlaceIndex(i), key) /\ pc' = "is_for" /\ exc' = exc
         ELSE A' = A /\ Raise("IndexError")
    /\ UNCHANGED <<ooVars, utilVars>>
    /\ UNCHANGED <<A0, call, ret, nalloc, i, j, k, key,
                   L, R, n1, n2, p, q, r, Ain, taken, stack>>

\* line 46: return A
ISReturn ==
    /\ pc = "is_return"
    /\ ret' = "A"
    /\ pc' = "done"
    /\ UNCHANGED <<ooVars, utilVars>>
    /\ UNCHANGED <<A, A0, call, exc, nalloc, i, j, k, key,
                   L, R, n1, n2, p, q, r, Ain, taken, stack>>

InsertionInputs == ListsUpTo(MaxLen) \cup {ExampleInsertion}

\* lines 49-51: A = [...]; insertion_sort(A)
InitIS ==
    /\ A \in InsertionInputs
    /\ A0 = A
    /\ call = <<"insertion_sort">>
    /\ ret = "unset"
    /\ exc = "none"
    /\ nalloc = 0
    /\ pc = "is_for"
    /\ i = 0 /\ j = 0 /\ k = 0 /\ key = 0
    /\ L = <<>> /\ R = <<>> /\ n1 = 0 /\ n2 = 0
    /\ p = 0 /\ q = 0 /\ r = 0
    /\ Ain = <<>>
    /\ taken = <<>>
    /\ stack = <<>>
    /\ NoObjects
    /\ NoUtilities

NextIS ==
    \/ ISFor
    \/ ISKey
    \/ ISInit
    \/ ISWhile
    \/ ISShift
    \/ ISDec
    \/ ISPlace
    \/ ISReturn

SpecIS == InitIS /\ [][NextIS]_vars

\* The interpreter runs the call to completion: a step that can be taken is taken.
LiveSpecIS == SpecIS /\ WF_vars(NextIS)


---------------------------------------------------------------------------
(* merge *)

\* faulty variant of RightIndex: the right half is read from A[q + j]
RightIndexOffByOne(qq, x) == qq + x

\* line 167: the index read by R[j] = A[q + j + 1]
RightIndex(qq, x) == qq + x + 1

\* faulty variant of CopyLeft: line 168 is missing, L[n1] keeps the 0 of line 162
CopyLeftNoSentinel(a, pp, m) ==
    [x \in 1..(m + 1) |-> IF x <= m THEN PyGet(a, pp + x - 1) ELSE 0]

\* lines 164-165: L[j] = A[p + j] for j in range(n1); line 168: L[n1] = inf
CopyLeft(a, pp, m) ==
    [x \in 1..(m + 1) |-> IF x <= m THEN PyGet(a, pp + x - 1) ELSE Inf]

\* lines 166-167: R[j] = A[q + j + 1] for j in range(n2); line 169: R[n2] = inf
CopyRight(a, qq, m) ==
    [x \in 1..(m + 1) |-> IF x <= m THEN PyGet(a, RightIndex(qq, x - 1)) ELSE Inf]

\* every read of the two copy loops and both sentinel writes are in range
CopyInRange(a, pp, qq, rr) ==
    /\ qq - pp + 1 >= 0
    /\ rr - qq >= 0
    /\ \A x \in 0..(qq - pp) : PyInRange(a, pp + x)
    /\ \A x \in 0..(rr - qq - 1) : PyInRange(a, RightIndex(qq, x))

\* lines 159-172: allocate L and R, copy the two halves, set the sentinels
MergeEnter ==
    /\ pc = "merge_enter"
    /\ Ain' = A
    /\ taken' = <<>>
    /\ IF CopyInRange(A, p, q, r)
         THEN /\ n1' = q - p + 1
              /\ n2' = r - q
              /\ L' = CopyLeft(A, p, q - p + 1)
              /\ R' = CopyRight(A, q, r - q)
              /\ nalloc' = nalloc + 2
              /\ i' = 0
              /\ j' = 0
              /\ k' = p - 1
              /\ pc' = "merge_loop"
              /\ exc' = exc
         ELSE /\ Raise("IndexError")
              /\ UNCHANGED <<n1, n2, L, R, nalloc, i, j, k>>
    /\ UNCHANGED <<ooVars, utilVars>>
    /\ UNCHANGED <<A, A0, call, ret, key, p, q, r, stack>>

\* faulty variant of TakeLeft: L[i] < R[j]
TakeLeftStrict(x, y) == x < y

\* line 175: L[i] <= R[j]
TakeLeft(x, y) == x <= y

\* faulty variant of KStop: range(p, r + 2)
KStopPastEnd(rr) == rr + 2

\* line 174: the stop value of range(p, r + 1)
KStop(rr) == rr + 1

\* lines 174-180: one iteration of the main loop
MergeStep ==
    /\ pc = "merge_loop"
    /\ k + 1 < KStop(r)
    /\ IF PyInRange(L, i) /\ PyInRange(R, j) /\ PyInRange(A, k + 1)
         THEN /\ k' = k + 1
              /\ pc' = pc
              /\ exc' = exc
              /\ IF TakeLeft(PyGet(L, i), PyGet(R, j))
                   THEN /\ A' = PySet(A, k + 1, PyGet(L, i))
                        /\ i' = i + 1
                        /\ j' = j
                        /\ taken' = Append(taken, <<"L", i>>)
                   ELSE /\ A' = PySet(A, k + 1, PyGet(R, j))
                        /\ j' = j + 1
                        /\ i' = i
                        /\ taken' = Append(taken, <<"R", j>>)
         ELSE /\ Raise("IndexError")
              /\ UNCHANGED <<A, i, j, k, taken>>
    /\ UNCHANGED <<ooVars, utilVars>>
    /\ UNCHANGED <<A0, call, ret, nalloc, key, L, R, n1, n2, p, q, r, Ain, stack>>

\* line 182: return A (to the notebook cell, or to merge_sort line 235,
\* which discards the value)
MergeReturn ==
    /\ pc = "merge_loop"
    /\ ~(k + 1 < KStop(r))
    /\ IF stack = <<>>
         THEN ret' = "A" /\ pc' = "done"
         ELSE ret' = ret /\ pc' = "ms"
    /\ UNCHANGED <<ooVars, utilVars>>
    /\ UNCHANGED <<A, A0, call, exc, nalloc, i, j, k, key,
                   L, R, n1, n2, p, q, r, Ain, taken, stack>>

\* p <= q < r are indices into a
MergeArgs(a) ==
    {t \in (0..(Len(a) - 1)) \X (0..(Len(a) - 1)) \X (0..(Len(a) - 1)) :
        t[1] <= t[2] /\ t[2] < t[3]}

\* lines 209-213: A = [...]; merge(A, p=p, q=q, r=r)
InitMerge ==
    /\ \/ /\ A \in ListsUpTo(MaxLen)
          /\ \E t \in MergeArgs(A) : p = t[1] /\ q = t[2] /\ r = t[3]
       \/ /\ A = ExampleMerge
          /\ p = 0 /\ q = 3 /\ r = Len(A) - 1
    /\ A0 = A
    /\ call = <<"merge", p, q, r>>
    /\ ret = "unset"
    /\ exc = "none"
    /\ nalloc = 0
    /\ pc = "merge_enter"
    /\ i = 0 /\ j = 0 /\ k = 0 /\ key = 0
    /\ L = <<>> /\ R = <<>> /\ n1 = 0 /\ n2 = 0
    /\ Ain = <<>>
    /\ taken = <<>>
    /\ stack = <<>>
    /\ NoObjects
    /\ NoUtilities

NextMerge ==
    \/ MergeEnter
    \/ MergeStep
    \/ MergeReturn

SpecMerge == InitMerge /\ [][NextMerge]_vars

---------------------------------------------------------------------------
(* merge_sort *)

\* Depth at which the model stands in for the interpreter's recursion limit
MaxDepth == 8

Top == stack[Len(stack)]

SetTop(f) == [stack EXCEPT ![Len(stack)] = f]

Pop == SubSeq(stack, 1, Len(stack) - 1)

\* faulty variant of Recurse: if p + 1 < r
RecurseOffByOne(pp, rr) == pp + 1 < rr

\* line 231: if p < r
Recurse(pp, rr) == pp < rr

\* faulty variant of Mid: the midpoint is rounded up
MidCeil(pp, rr) == (pp + rr + 1) \div 2

\* line 232: q = (p + r) // 2
Mid(pp, rr) == (pp + rr) \div 2

\* a call merge_sort(A, pp, rr): a new activation record at line 231
Push(st, pp, rr) == Append(st, [p |-> pp, r |-> rr, at |-> "test"])

\* lines 231-232, and the fall-through return of None when the test fails
MSEnter ==
    /\ pc = "ms"
    /\ Top.at = "test"
    /\ IF Recurse(Top.p, Top.r)
         THEN /\ stack' = SetTop([p |-> Top.p, r |-> Top.r,
                                  q |-> Mid(Top.p, Top.r), at |-> "call1"])
              /\ pc' = pc
              /\ ret' = ret
         ELSE /\ stack' = Pop
              /\ IF Len(stack) = 1
                   THEN ret' = "None" /\ pc' = "done"
                   ELSE ret' = ret /\ pc' = pc
    /\ UNCHANGED <<ooVars, utilVars>>
    /\ UNCHANGED <<A, A0, call, exc, nalloc, i, j, k, key,
                   L, R, n1, n2, p, q, r, Ain, taken>>

\* line 233: merge_sort(A, p, q)
MSCallFirst ==
    /\ pc = "ms"
    /\ Top.at = "call1"
    /\ IF Len(stack) >= MaxDepth
         THEN Raise("RecursionError") /\ stack' = stack
         ELSE /\ stack' = Push(SetTop([Top EXCEPT !.at = "call2"]), Top.p, Top.q)
              /\ pc' = pc
              /\ exc' = exc
    /\ UNCHANGED <<ooVars, utilVars>>
    /\ UNCHANGED <<A, A0, call, ret, nalloc, i, j, k, key,
                   L, R, n1, n2, p, q, r, Ain, taken>>

\* line 234: merge_sort(A, q + 1, r)
MSCallSecond ==
    /\ pc = "ms"
    /\ Top.at = "call2"
    /\ IF Len(stack) >= MaxDepth
         THEN Raise("RecursionError") /\ stack' = stack
         ELSE /\ stack' = Push(SetTop([Top EXCEPT !.at = "merge"]), Top.q + 1, Top.r)
              /\ pc' = pc
              /\ exc' = exc
    /\ UNCHANGED <<ooVars, utilVars>>
    /\ UNCHANGED <<A, A0, call, ret, nalloc, i, j, k, key,
                   L, R, n1, n2, p, q, r, Ain, taken>>

\* line 235: merge(A, p, q, r)
MSCallMerge ==
    /\ pc = "ms"
    /\ Top.at = "merge"
    /\ p' = Top.p
    /\ q' = Top.q
    /\ r' = Top.r
    /\ stack' = SetTop([Top EXCEPT !.at = "ret"])
    /\ pc' = "merge_enter"
    /\ UNCHANGED <<ooVars, utilVars>>
    /\ UNCHANGED <<A, A0, call, ret, exc, nalloc, i, j, k, key,
                   L, R, n1, n2, Ain, taken>>

\* line 236: return A
MSReturn ==
    /\ pc = "ms"
    /\ Top.at = "ret"
    /\ stack' = Pop
    /\ IF Len(stack) = 1
         THEN ret' = "A" /\ pc' = "done"
         ELSE ret' = ret /\ pc' = pc
    /\ UNCHANGED <<ooVars, utilVars>>
    /\ UNCHANGED <<A, A0, call, exc, nalloc, i, j, k, key,
                   L, R, n1, n2, p, q, r, Ain, taken>>

\* the call of the example cell, merge_sort(A, 0, len(A) - 1), and the calls
\* merge_sort(A, p, r) with 0 <= p, r < len(A)
MergeSortArgs(a) ==
    {<<0, Len(a) - 1>>} \cup ((0..(Len(a) - 1)) \X (0..(Len(a) - 1)))

\* lines 256-257: A = [...]; merge_sort(A, 0, len(A)-1)
InitMS ==
    /\ \/ /\ A \in ListsUpTo(MaxLen)
          /\ \E t \in MergeSortArgs(A) : call = <<"merge_sort", t[1], t[2]>>
       \/ /\ A = ExampleMergeSort
          /\ call = <<"merge_sort", 0, Len(A) - 1>>
    /\ A0 = A
    /\ stack = Push(<<>>, call[2], call[3])
    /\ NoObjects
    /\ NoUtilities
    /\ ret = "unset"
    /\ exc = "none"
    /\ nalloc = 0
    /\ pc = "ms"
    /\ i = 0 /\ j = 0 /\ k = 0 /\ key = 0
    /\ L = <<>> /\ R = <<>> /\ n1 = 0 /\ n2 = 0
    /\ p = 0 /\ q = 0 /\ r = 0
    /\ Ain = <<>>
    /\ taken = <<>>

NextMS ==
    \/ MSEnter
    \/ MSCallFirst
    \/ MSCallSecond
    \/ MSCallMerge
    \/ MSReturn
    \/ MergeEnter
    \/ MergeStep
    \/ MergeReturn

SpecMS == InitMS /\ [][NextMS]_vars

\* The interpreter runs the call to completion: a step that can be taken is taken.
LiveSpecMS == SpecMS /\ WF_vars(NextMS)

---------------------------------------------------------------------------
(* Module, DataModule, Trainer *)

MaxEpochs == 2
MaxBatches == 1

(* Python values held in attributes *)
PyNone == [type |-> "NoneType"]

PyInt(n) == [type |-> "int", v |-> n]

PyList(items) == [type |-> "list", items |-> items]

PyRef(name) == [type |-> "object", name |-> name]

\* a data loader that yields n batches; len() of it is n
Loader(n) == [type |-> "loader", len |-> n]

\* setattr(o, name, v) on an attribute dictionary
SetAttr(o, name, v) == [x \in DOMAIN o \cup {name} |-> IF x = name THEN v ELSE o[x]]

HasAttr(o, name) == name \in DOMAIN o

\* obj with the attribute dictionary of instance who replaced by o
With(who, o) == [obj EXCEPT ![who] = o]

\* the methods of the base classes whose body is raise NotImplementedError
Stubs == {"loss", "configure_optimizers", "get_dataloader", "fit_epoch"}

\* faulty variant of StubRaises: the body is pass
StubReturnsNone(m) == "none"

\* lines 267, 300, 324, 377: the exception the base-class body of m raises
StubRaises(m) == "NotImplementedError"

\* the outcome of calling method m of Stubs on an instance: the overriding
\* method returns, the base-class method raises
Outcome(m) == IF m \in impl THEN "none" ELSE StubRaises(m)

\* lines 350-352: Trainer(max_epochs); save_hyperparameters stores the arguments
NewTrainer(n) ==
    [hparams |-> [max_epochs |-> PyInt(n), num_gpus |-> PyInt(0),
                  gradient_clip_val |-> PyInt(0)],
     max_epochs |-> PyInt(n), num_gpus |-> PyInt(0), gradient_clip_val |-> PyInt(0)]

\* lines 320-321: DataModule(); save_hyperparameters stores the defaults
NewData ==
    [hparams |-> [root |-> "../data", num_workers |-> PyInt(4)],
     root |-> "../data", num_workers |-> PyInt(4)]

\* an instance of a class derived from Module: with the ProgressBoard of
\* line 264 as self.board (xlim=None, line 170), or without it
NewModel(board) ==
    IF board THEN [board |-> [xlim |-> PyNone]] ELSE <<>>

Loaders == {PyNone} \cup {Loader(n) : n \in 0..MaxBatches}

\* lines 376-377: the body of fit_epoch in the base class
BaseBody == "raise NotImplementedError"

\* the bodies that run over the batches of both loaders, adding one to
\* self.train_batch_idx and to self.val_batch_idx for each batch
BatchBodies == {"d2l", "max_epochs+=1"}

\* bodies of fit_epoch in a subclass of Trainer:
\*   "pass"               pass
\*   "d2l"                for batch in self.train_dataloader: self.train_batch_idx += 1
\*                        if self.val_dataloader is None: return
\*                        for batch in self.val_dataloader: self.val_batch_idx += 1
\*   "max_epochs+=1"      the four statements of "d2l" followed, in the same
\*                        body, by self.max_epochs += 1: the return taken when
\*                        self.val_dataloader is None ends the body before it
\*   "epoch=0"            self.epoch = 0
\*   "raise ValueError"   raise ValueError
OverrideBodies == {"pass", "raise ValueError", "epoch=0"} \cup BatchBodies

\* len(loader), of a loader or of None (the loop over it is skipped)
Batches(loader) == IF loader = PyNone THEN 0 ELSE loader.len

\* the exception that the body of fit_epoch raises on trainer t, or "none"
BodyRaises(body, t) ==
    IF body = BaseBody THEN StubRaises("fit_epoch")
    ELSE IF body = "raise ValueError" THEN "ValueError"
    ELSE IF body \in BatchBodies /\ ~HasAttr(t, "train_dataloader") THEN "AttributeError"
    ELSE "none"

\* the notebook's objects, before any method is called on them
InitOO ==
    /\ \E n \in 0..MaxEpochs : \E b \in BOOLEAN :
           obj = [trainer |-> NewTrainer(n), model |-> NewModel(b), data |-> NewData]
    /\ obj0 = obj
    /\ impl \in SUBSET Stubs
    /\ env \in [train : Loaders, val : Loaders, body : OverrideBodies \cup {BaseBody}]
    /\ ("fit_epoch" \in impl) = (env.body # BaseBody)
    /\ it = <<>>
    /\ epochs = <<>>
    /\ delegated = <<>>
    /\ raisedAt = "none"
    /\ NoUtilities
    /\ call = <<"none">>
    /\ ret = "unset"
    /\ exc = "none"
    /\ pc = "idle"
    /\ A = <<>> /\ A0 = <<>> /\ nalloc = 0
    /\ i = 0 /\ j = 0 /\ k = 0 /\ key = 0
    /\ L = <<>> /\ R = <<>> /\ n1 = 0 /\ n2 = 0
    /\ p = 0 /\ q = 0 /\ r = 0
    /\ Ain = <<>>
    /\ taken = <<>>
    /\ stack = <<>>

sortLocals == <<A, A0, nalloc, i, j, k, key, L, R, n1, n2, p, q, r, Ain, taken, stack>>

\* a top-level call of a method whose whole effect is Outcome(m)
Finish(m) ==
    IF Outcome(m) = "none"
      THEN pc' = "done" /\ exc' = exc /\ ret' = "value"
      ELSE Raise(Outcome(m)) /\ ret' = ret

\* lines 266-267: model.loss(y_hat, y)
CallLoss ==
    /\ pc = "idle"
    /\ call' = <<"loss">>
    /\ Finish("loss")
    /\ UNCHANGED <<obj, obj0, impl, env, it, epochs, delegated, raisedAt>>
    /\ UNCHANGED <<sortLocals, utilVars>>

\* lines 299-300: model.configure_optimizers()
CallConfigureOptimizers ==
    /\ pc = "idle"
    /\ call' = <<"configure_optimizers">>
    /\ Finish("configure_optimizers")
    /\ UNCHANGED <<obj, obj0, impl, env, it, epochs, delegated, raisedAt>>
    /\ UNCHANGED <<sortLocals, utilVars>>

\* lines 323-324: data.get_dataloader(train)
CallGetDataloader ==
    /\ pc = "idle"
    /\ \E train \in BOOLEAN : call' = <<"get_dataloader", train>>
    /\ Finish("get_dataloader")
    /\ UNCHANGED <<obj, obj0, impl, env, it, epochs, delegated, raisedAt>>
    /\ UNCHANGED <<sortLocals, utilVars>>

\* lines 326-327: data.train_dataloader() is self.get_dataloader(train=True)
CallTrainDataloader ==
    /\ pc = "idle"
    /\ call' = <<"train_dataloader">>
    /\ delegated' = <<"get_dataloader", TRUE>>
    /\ Finish("get_dataloader")
    /\ UNCHANGED <<obj, obj0, impl, env, it, epochs, raisedAt>>
    /\ UNCHANGED <<sortLocals, utilVars>>

\* lines 329-330: data.val_dataloader() is self.get_dataloader(train=False)
CallValDataloader ==
    /\ pc = "idle"
    /\ call' = <<"val_dataloader">>
    /\ delegated' = <<"get_dataloader", FALSE>>
    /\ Finish("get_dataloader")
    /\ UNCHANGED <<obj, obj0, impl, env, it, epochs, raisedAt>>
    /\ UNCHANGED <<sortLocals, utilVars>>

\* what the body of fit_epoch leaves in the trainer t when it returns; a body
\* of BatchBodies returns after the loop over the training batches when
\* self.val_dataloader is None
AfterFitEpoch(t, body) ==
    IF body \in BatchBodies
      THEN LET u == SetAttr(SetAttr(t, "train_batch_idx",
                                    PyInt(t.train_batch_idx.v + Batches(t.train_dataloader))),
                            "val_batch_idx",
                            PyInt(t.val_batch_idx.v + Batches(t.val_dataloader)))
           IN  IF body = "max_epochs+=1" /\ t.val_dataloader # PyNone
                 THEN SetAttr(u, "max_epochs", PyInt(u.max_epochs.v + 1))
                 ELSE u
    ELSE IF body = "epoch=0" THEN SetAttr(t, "epoch", PyInt(0))
    ELSE t

\* lines 376-377: trainer.fit_epoch(), on a trainer that fit was not called on
CallFitEpoch ==
    /\ pc = "idle"
    /\ call' = <<"fit_epoch">>
    /\ IF BodyRaises(env.body, obj.trainer) = "none"
         THEN /\ obj' = With("trainer", AfterFitEpoch(obj.trainer, env.body))
              /\ pc' = "done" /\ exc' = exc /\ ret' = "value"
         ELSE /\ Raise(BodyRaises(env.body, obj.trainer))
              /\ ret' = ret /\ obj' = obj
    /\ UNCHANGED <<obj0, impl, env, it, epochs, delegated, raisedAt>>
    /\ UNCHANGED <<sortLocals, utilVars>>

\* lines 261-262: Module(): super.__init__() is a call of the slot of the type
\* super without an instance, which raises TypeError before any attribute is set
CallModuleInit ==
    /\ pc = "idle"
    /\ call' = <<"Module.__init__">>
    /\ Raise("TypeError")
    /\ UNCHANGED <<ret, obj, obj0, impl, env, it, epochs, delegated, raisedAt>>
    /\ UNCHANGED <<sortLocals, utilVars>>

\* what data.get_dataloader(train) evaluates to when it does not raise
DataloaderValue(train) ==
    IF "get_dataloader" \in impl
      THEN (IF train THEN env.train ELSE env.val)
      ELSE PyNone

\* an exception raised at position where of Trainer.fit
RaiseAt(e, where) ==
    /\ Raise(e)
    /\ raisedAt' = where

\* line 366: trainer.fit(model, data)
CallFit ==
    /\ pc = "idle"
    /\ call' = <<"fit">>
    /\ pc' = "pd_train"
    /\ UNCHANGED <<ret, exc, obj, obj0, impl, env, it, epochs, delegated, raisedAt>>
    /\ UNCHANGED <<sortLocals, utilVars>>

\* lines 367, 355: self.train_dataloader = data.train_dataloader(), which
\* calls self.get_dataloader(train=True) (line 327)
PrepareDataTrain ==
    /\ pc = "pd_train"
    /\ IF Outcome("get_dataloader") = "none"
         THEN /\ obj' = With("trainer", SetAttr(obj.trainer, "train_dataloader",
                                                DataloaderValue(TRUE)))
              /\ pc' = "pd_val"
              /\ UNCHANGED <<exc, raisedAt>>
         ELSE /\ RaiseAt(Outcome("get_dataloader"), "prepare_data")
              /\ obj' = obj
    /\ delegated' = <<"get_dataloader", TRUE>>
    /\ UNCHANGED <<call, ret, obj0, impl, env, it, epochs>>
    /\ UNCHANGED <<sortLocals, utilVars>>

\* line 356: self.val_dataloader = data.val_dataloader(), which calls
\* self.get_dataloader(train=False) (line 330)
PrepareDataVal ==
    /\ pc = "pd_val"
    /\ IF Outcome("get_dataloader") = "none"
         THEN /\ obj' = With("trainer", SetAttr(obj.trainer, "val_dataloader",
                                                DataloaderValue(FALSE)))
              /\ pc' = "pd_num_train"
              /\ UNCHANGED <<exc, raisedAt>>
         ELSE /\ RaiseAt(Outcome("get_dataloader"), "prepare_data")
              /\ obj' = obj
    /\ delegated' = <<"get_dataloader", FALSE>>
    /\ UNCHANGED <<call, ret, obj0, impl, env, it, epochs>>
    /\ UNCHANGED <<sortLocals, utilVars>>

\* line 357: self.num_train_batches = len(self.train_dataloader)
PrepareDataNumTrain ==
    /\ pc = "pd_num_train"
    /\ IF obj.trainer.train_dataloader.type = "loader"
         THEN /\ obj' = With("trainer", SetAttr(obj.trainer, "num_train_batches",
                                  PyInt(obj.trainer.train_dataloader.len)))
              /\ pc' = "pd_num_val"
              /\ UNCHANGED <<exc, raisedAt>>
         ELSE /\ RaiseAt("TypeError", "prepare_data")
              /\ obj' = obj
    /\ UNCHANGED <<call, ret, obj0, impl, env, it, epochs, delegated>>
    /\ UNCHANGED <<sortLocals, utilVars>>

\* lines 358-359: self.num_val_batches =
\*     len(self.val_dataloader) if self.val_dataloader is not None else 0
PrepareDataNumVal ==
    /\ pc = "pd_num_val"
    /\ obj' = With("trainer", SetAttr(obj.trainer, "num_val_batches",
                      IF obj.trainer.val_dataloader # PyNone
                        THEN PyInt(obj.trainer.val_dataloader.len)
                        ELSE PyInt(0)))
    /\ pc' = "prepare_model"
    /\ UNCHANGED <<call, ret, exc, obj0, impl, env, it, epochs, delegated, raisedAt>>
    /\ UNCHANGED <<sortLocals, utilVars>>

\* lines 368, 362-364: model.trainer = self;
\* model.board.xlim = [0, self.max_epochs]; self.model = model
PrepareModel ==
    /\ pc = "prepare_model"
    /\ IF HasAttr(obj.model, "board")
         THEN /\ obj' = [obj EXCEPT
                   !.model = SetAttr(SetAttr(obj.model, "trainer", PyRef("trainer")),
                                     "board",
                                     [obj.model.board EXCEPT
                                         !.xlim = PyList(<<0, obj.trainer.max_epochs.v>>)]),
                   !.trainer = SetAttr(obj.trainer, "model", PyRef("model"))]
              /\ pc' = "optim"
              /\ UNCHANGED <<exc, raisedAt>>
         ELSE /\ obj' = With("model", SetAttr(obj.model, "trainer", PyRef("trainer")))
              /\ RaiseAt("AttributeError", "prepare_model")
    /\ UNCHANGED <<call, ret, obj0, impl, env, it, epochs, delegated>>
    /\ UNCHANGED <<sortLocals, utilVars>>

\* line 369: self.optim = model.configure_optimizers()
FitOptim ==
    /\ pc = "optim"
    /\ IF Outcome("configure_optimizers") = "none"
         THEN /\ obj' = With("trainer", SetAttr(obj.trainer, "optim",
                          IF "configure_optimizers" \in impl
                            THEN PyRef("optimizer") ELSE PyNone))
              /\ pc' = "fit_init"
              /\ UNCHANGED <<exc, raisedAt>>
         ELSE /\ RaiseAt(Outcome("configure_optimizers"), "configure_optimizers")
              /\ obj' = obj
    /\ UNCHANGED <<call, ret, obj0, impl, env, it, epochs, delegated>>
    /\ UNCHANGED <<sortLocals, utilVars>>

\* lines 370-372: self.epoch = 0; self.train_batch_idx = 0; self.val_batch_idx = 0
FitInit ==
    /\ pc = "fit_init"
    /\ obj' = With("trainer",
                   SetAttr(SetAttr(SetAttr(obj.trainer, "epoch", PyInt(0)),
                                   "train_batch_idx", PyInt(0)),
                           "val_batch_idx", PyInt(0)))
    /\ pc' = "fit_range"
    /\ UNCHANGED <<call, ret, exc, obj0, impl, env, it, epochs, delegated, raisedAt>>
    /\ UNCHANGED <<sortLocals, utilVars>>

\* faulty variant of EpochRange: range(n + 1)
EpochRangeInclusive(n) == [next |-> 0, stop |-> n + 1]

\* line 373: iter(range(n))
EpochRange(n) == [next |-> 0, stop |-> n]

\* line 373: range(self.max_epochs) is evaluated once, on entry to the loop
FitRange ==
    /\ pc = "fit_range"
    /\ it' = EpochRange(obj.trainer.max_epochs.v)
    /\ pc' = "fit_for"
    /\ UNCHANGED <<call, ret, exc, obj, obj0, impl, env, epochs, delegated, raisedAt>>
    /\ UNCHANGED <<sortLocals, utilVars>>

\* line 373: for self.epoch in ...: the next value is stored in self.epoch,
\* or the loop ends and fit returns None
FitFor ==
    /\ pc = "fit_for"
    /\ IF it.next < it.stop
         THEN /\ obj' = With("trainer", SetAttr(obj.trainer, "epoch", PyInt(it.next)))
              /\ it' = [it EXCEPT !.next = it.next + 1]
              /\ pc' = "fit_epoch"
              /\ ret' = ret
         ELSE /\ pc' = "done"
              /\ ret' = "None"
              /\ UNCHANGED <<obj, it>>
    /\ UNCHANGED <<call, exc, obj0, impl, env, epochs, delegated, raisedAt>>
    /\ UNCHANGED <<sortLocals, utilVars>>

\* line 374: self.fit_epoch(), the body of lines 376-377 or that of the subclass
FitEpoch ==
    /\ pc = "fit_epoch"
    /\ epochs' = Append(epochs, obj.trainer.epoch.v)
    /\ IF BodyRaises(env.body, obj.trainer) = "none"
         THEN /\ obj' = With("trainer", AfterFitEpoch(obj.trainer, env.body))
              /\ pc' = "fit_for"
              /\ UNCHANGED <<exc, raisedAt>>
         ELSE /\ RaiseAt(BodyRaises(env.body, obj.trainer), "fit_epoch")
              /\ obj' = obj
    /\ UNCHANGED <<call, ret, obj0, impl, env, it, delegated>>
    /\ UNCHANGED <<sortLocals, utilVars>>

NextOO ==
    \/ CallLoss
    \/ CallConfigureOptimizers
    \/ CallGetDataloader
    \/ CallTrainDataloader
    \/ CallValDataloader
    \/ CallFitEpoch
    \/ CallModuleInit
    \/ CallFit
    \/ PrepareDataTrain
    \/ PrepareDataVal
    \/ PrepareDataNumTrain
    \/ PrepareDataNumVal
    \/ PrepareModel
    \/ FitOptim
    \/ FitInit
    \/ FitRange
    \/ FitFor
    \/ FitEpoch

SpecOO == InitOO /\ [][NextOO]_vars

---------------------------------------------------------------------------
(* Properties of insertion_sort *)

\* C1: for every input list, insertion_sort(A) terminates and returns a list
\* that is non-decreasing and a permutation of the input.
C1_InsertionSortSorts ==
    <>(pc = "done" /\ exc = "none" /\ ret = "A" /\ Sorted(A) /\ IsPerm(A, A0))

\* the example cell: [5,2,4,6,1,3] comes back as [1,2,3,4,5,6]
C1_Witness ==
    /\ pc = "done"
    /\ A0 = ExampleInsertion
    /\ A = <<1, 2, 3, 4, 5, 6>>

\* the elements of the input that are not in A
Missing == BagOf(A0) (-) BagOf(A)

\* C8: insertion_sort sorts in place: it returns the list it was given, it
\* allocates no other list, and at every point every element of the input is
\* in A except for at most one, the current key.
C8_InsertionSortInPlace ==
    /\ nalloc = 0
    /\ Len(A) = Len(A0)
    /\ BagCardinality(Missing) <= 1
    /\ BagCardinality(Missing) = 1 =>
           /\ pc \in {"is_while", "is_shift", "is_dec", "is_place"}
           /\ BagIn(key, Missing)
    /\ pc = "done" => ret = "A"

\* the key is held outside the list while a larger element has been shifted
C8_Witness ==
    /\ pc = "is_dec"
    /\ BagCardinality(Missing) = 1
    /\ BagIn(key, Missing)

---------------------------------------------------------------------------
(* Properties of merge *)

\* the precondition of MERGE: A[p..q] and A[q+1..r] are in sorted order
HalvesSorted == SortedRange(A0, p, q) /\ SortedRange(A0, q + 1, r)

\* C2: when A[p..q] and A[q+1..r] are each non-decreasing, after
\* merge(A, p, q, r) the subarray A[p..r] is non-decreasing and holds the
\* same multiset of elements as before the call.
C2_MergeSorts ==
    HalvesSorted =>
        /\ pc # "raised"
        /\ pc = "done" =>
               /\ SortedRange(A, p, r)
               /\ BagOf(Slice(A, p, r)) = BagOf(Slice(A0, p, r))

\* the example cell: [1,2,3,4 | 2,3,4,5] merges to [1,2,2,3,3,4,4,5]
C2_Witness ==
    /\ pc = "done"
    /\ A0 = ExampleMerge
    /\ A = <<1, 2, 2, 3, 3, 4, 4, 5>>

\* the element of L or R that a write of the main loop copied
Source(t) == IF t[1] = "L" THEN PyGet(L, t[2]) ELSE PyGet(R, t[2])

\* C3: merge is stable: elements of the same subarray keep their relative
\* order, and an element of the right subarray is never placed before an
\* equal element of the left subarray.
C3_MergeStable ==
    HalvesSorted =>
        /\ \A x \in DOMAIN taken : \A y \in DOMAIN taken :
               x < y =>
                   /\ taken[x][1] = taken[y][1] => taken[x][2] < taken[y][2]
                   /\ (taken[x][1] = "R" /\ taken[y][1] = "L") =>
                          Source(taken[x]) # Source(taken[y])
        /\ \A x \in DOMAIN taken : PyGet(A, p + x - 1) = Source(taken[x])
        /\ pc = "done" =>
               Range(taken) = ({"L"} \X (0..(n1 - 1))) \cup ({"R"} \X (0..(n2 - 1)))

\* a finished merge in which a left element and a right element were equal
C3_Witness ==
    /\ pc = "done"
    /\ HalvesSorted
    /\ \E x \in DOMAIN taken : \E y \in DOMAIN taken :
           /\ x < y
           /\ taken[x][1] = "L"
           /\ taken[y][1] = "R"
           /\ Source(taken[x]) = Source(taken[y])

\* C7: merge replaces only A[p..r]: every element below p or above r is the
\* same as before the call, and the length of A is unchanged.
C7_MergeFrame == SameOutside(A, A0, p, r)

\* a finished merge that changed A[p..r] and left elements outside it
C7_Witness ==
    /\ pc = "done"
    /\ A # A0
    /\ p > 0
    /\ r < Len(A) - 1

---------------------------------------------------------------------------
(* Properties of merge_sort *)

\* the top-level call is merge_sort(A, 0, len(A) - 1)
WholeList == call[2] = 0 /\ call[3] = Len(A0) - 1

\* C4: for every input list, of any length, merge_sort(A, 0, len(A)-1)
\* returns a list that is a non-decreasing permutation of the input.
C4_MergeSortReturnsSorted ==
    (pc = "done" /\ WholeList) =>
        /\ ret = "A"
        /\ Sorted(A)
        /\ IsPerm(A, A0)

\* C5: for every list that is already non-decreasing,
\* merge_sort(A, 0, len(A)-1) returns a list equal to A and leaves the
\* contents of A unchanged.
C5_MergeSortIdempotent ==
    (pc = "done" /\ WholeList /\ Sorted(A0)) =>
        /\ ret = "A"
        /\ A = A0

\* C6: merge_sort(A, p, r) leaves A[p..r] a non-decreasing permutation of its
\* former contents, never changes an element outside p..r, and does not
\* modify A at all when p >= r.
C6_MergeSortSubarray ==
    /\ pc # "raised"
    /\ SameOutside(A, A0, call[2], call[3])
    /\ call[2] >= call[3] => A = A0
    /\ pc = "done" =>
           /\ SortedRange(A, call[2], call[3])
           /\ BagOf(Slice(A, call[2], call[3])) = BagOf(Slice(A0, call[2], call[3]))

\* a finished sort of a proper subarray that was out of order
C6_Witness ==
    /\ pc = "done"
    /\ call[2] < call[3]
    /\ Len(A) > call[3] - call[2] + 1
    /\ A # A0

---------------------------------------------------------------------------
(* Properties of Module, DataModule and Trainer *)

\* the method of Stubs that a top-level call c ends in
StubOf(c) == IF c \in {"train_dataloader", "val_dataloader"} THEN "get_dataloader" ELSE c

\* the top-level call runs the base-class body of an abstract method
BaseStubCalled ==
    /\ call[1] \in Stubs \cup {"train_dataloader", "val_dataloader"}
    /\ StubOf(call[1]) \notin impl

\* C9: loss, configure_optimizers, get_dataloader and fit_epoch of the base
\* classes raise NotImplementedError and change no state; train_dataloader and
\* val_dataloader delegate to get_dataloader with train=True and train=False
\* and so raise it too.
C9_StubsRaise ==
    BaseStubCalled =>
        /\ pc = "raised"
        /\ exc = "NotImplementedError"
        /\ ret = "unset"
        /\ obj = obj0
        /\ call[1] = "train_dataloader" => delegated = <<"get_dataloader", TRUE>>
        /\ call[1] = "val_dataloader" => delegated = <<"get_dataloader", FALSE>>

\* val_dataloader of the base DataModule has raised through get_dataloader(train=False)
C9_Witness ==
    /\ call = <<"val_dataloader">>
    /\ "get_dataloader" \notin impl
    /\ delegated = <<"get_dataloader", FALSE>>
    /\ exc = "NotImplementedError"

\* max_epochs of the trainer that fit was called on
MaxEpochsArg == obj0.trainer.max_epochs.v

\* <<0, 1, ..., n-1>>
FirstEpochs(n) == [x \in 1..n |-> x - 1]

\* C10 as stated: whenever a subclass implements fit_epoch, a call of fit
\* calls fit_epoch exactly max_epochs times, with self.epoch = 0, 1, ...,
\* max_epochs-1.
C10_FitCallsMaxEpochsTimes ==
    (call[1] = "fit" /\ "fit_epoch" \in impl /\ pc \in {"done", "raised"}) =>
        epochs = FirstEpochs(MaxEpochsArg)

\* C10, amended: when prepare_data, prepare_model and configure_optimizers
\* return normally and every call of fit_epoch returns normally, fit calls
\* fit_epoch exactly max_epochs times, with self.epoch = 0, 1, ...,
\* max_epochs-1 in increasing order, one value per call (never for
\* max_epochs = 0); when one of the three set-up steps raises, fit_epoch is
\* not called.
C10_FitIterates ==
    call[1] = "fit" =>
        /\ epochs = FirstEpochs(Len(epochs))
        /\ Len(epochs) <= MaxEpochsArg
        /\ pc = "fit_epoch" => obj.trainer.epoch.v = Len(epochs)
        /\ pc = "done" => epochs = FirstEpochs(MaxEpochsArg)
        /\ pc = "raised" =>
               \/ /\ raisedAt \in {"prepare_data", "prepare_model", "configure_optimizers"}
                  /\ epochs = <<>>
               \/ /\ raisedAt = "fit_epoch"
                  /\ \/ "fit_epoch" \notin impl /\ exc = "NotImplementedError"
                     \/ env.body = "raise ValueError" /\ exc = "ValueError"

\* fit has returned after two epochs although the last fit_epoch stored 0 in
\* self.epoch
C10_Witness ==
    /\ call[1] = "fit"
    /\ pc = "done"
    /\ epochs = <<0, 1>>
    /\ obj.trainer.epoch.v = 0

---------------------------------------------------------------------------
(* add_to_class *)

MaxInstances == 2
MaxRegs == 2
MaxBodies == 2

\* __name__ of the functions that get registered: do (line 87), and b, the
\* name of the attribute that A.__init__ sets (line 67)
FuncNames == {"do", "b"}

\* function objects: their __name__ and which body they have
Funcs == [name : FuncNames, body : 1..MaxBodies]

\* lines 65-67: class A with its __init__
ClassA == [x \in {"__init__"} |-> [name |-> "__init__", body |-> 0]]

\* lines 66-67: the attributes of a new instance: self.b = 1
NewA == [x \in {"b"} |-> 1]

\* faulty variant of RegisteredName: the name of the inner function
RegisteredNameWrapper(f) == "wrapper"

\* line 48: obj.__name__
RegisteredName(f) == f.name

\* line 69: a = A()
NewInstance ==
    /\ pc = "cells"
    /\ Len(instances) < MaxInstances
    /\ instances' = Append(instances, NewA)
    /\ born' = Append(born, Len(registered))
    /\ UNCHANGED <<classDict, registered, result, frame, ignore, self, todo>>
    /\ UNCHANGED <<call, ret, exc, pc, sortLocals, ooVars>>

\* lines 45-49, 86-88: add_to_class(A)(f): setattr(Class, obj.__name__, obj)
Register ==
    /\ pc = "cells"
    /\ Len(registered) < MaxRegs
    /\ \E f \in Funcs :
           /\ classDict' = SetAttr(classDict, RegisteredName(f), f)
           /\ registered' = Append(registered, f)
    /\ UNCHANGED <<instances, born, result, frame, ignore, self, todo>>
    /\ UNCHANGED <<call, ret, exc, pc, sortLocals, ooVars>>

\* line 90: a.do(): the attribute is looked up in the instance's dictionary,
\* then in the class's; a function found in the class is called with the
\* instance as its first argument
Invoke(x, n) ==
    IF n \in DOMAIN instances[x]
      THEN [exc |-> "TypeError", inst |-> x, name |-> n, at |-> Len(registered)]
      ELSE IF n \in DOMAIN classDict
        THEN [exc |-> "none", inst |-> x, name |-> n, at |-> Len(registered),
              ran |-> classDict[n], selfArg |-> x]
        ELSE [exc |-> "AttributeError", inst |-> x, name |-> n, at |-> Len(registered)]

CallMethod ==
    /\ pc = "cells"
    /\ \E x \in DOMAIN instances : \E n \in FuncNames : result' = Invoke(x, n)
    /\ UNCHANGED <<classDict, instances, born, registered, frame, ignore, self, todo>>
    /\ UNCHANGED <<call, ret, exc, pc, sortLocals, ooVars>>

\* lines 65-67: the class exists, no instance yet, nothing registered
InitReg ==
    /\ classDict = ClassA
    /\ instances = <<>>
    /\ born = <<>>
    /\ registered = <<>>
    /\ result = [exc |-> "no call"]
    /\ frame = <<>> /\ ignore = <<>> /\ self = <<>> /\ todo = <<>>
    /\ NoObjects
    /\ call = <<"none">>
    /\ ret = "unset"
    /\ exc = "none"
    /\ pc = "cells"
    /\ A = <<>> /\ A0 = <<>> /\ nalloc = 0
    /\ i = 0 /\ j = 0 /\ k = 0 /\ key = 0
    /\ L = <<>> /\ R = <<>> /\ n1 = 0 /\ n2 = 0
    /\ p = 0 /\ q = 0 /\ r = 0
    /\ Ain = <<>>
    /\ taken = <<>>
    /\ stack = <<>>

NextReg ==
    \/ NewInstance
    \/ Register
    \/ CallMethod

SpecReg == InitReg /\ [][NextReg]_vars

---------------------------------------------------------------------------
(* Properties of add_to_class *)

\* positions in registered, up to the time of the last call, of the functions
\* named like the method that was called
RegsOfCall == {x \in 1..result.at : registered[x].name = result.name}

\* the last function registered under the called name before the call
LastReg == registered[SetMax(RegsOfCall)]

\* the last call ran the last function registered under its name, with the
\* instance it was made on as self
RanRegistered ==
    /\ result.exc = "none"
    /\ result.ran = LastReg
    /\ result.selfArg = result.inst

\* C11 as stated: after add_to_class(C)(f) every instance of C can call the
\* method under the name f.__name__, and the call runs f with the instance as
\* self.
C11_EveryInstanceCanCall ==
    (result.exc # "no call" /\ RegsOfCall # {}) => RanRegistered

\* C11, amended: after add_to_class(C)(f) every instance of C that has no
\* instance attribute named f.__name__, created before or after the
\* registration, can call the method under the name f.__name__, and the call
\* runs f with the instance as self.
C11_UnshadowedInstanceCanCall ==
    (/\ result.exc # "no call"
     /\ RegsOfCall # {}
     /\ result.name \notin DOMAIN instances[result.inst]) => RanRegistered

\* a call on an instance that was created before the function was registered
C11_Witness ==
    /\ result.exc = "none"
    /\ RegsOfCall # {}
    /\ born[result.inst] < SetMax(RegsOfCall)
    /\ result.ran = LastReg

---------------------------------------------------------------------------
(* HyperParameters.save_hyperparameters *)

MaxArg == 2

\* the names an __init__ may bind, in the order in which it binds them:
\* the parameters self, a, b, c (line 143), a parameter whose name starts
\* with an underscore, and a local variable assigned before the call
NameOrder == <<"self", "a", "b", "c", "_d", "t">>

\* k.startswith('_'), on the names of NameOrder
StartsWithUnderscore(n) == n \in {"_d"}

\* the two dictionaries merged; the names of u win
Merge(u, v) == [x \in DOMAIN u \cup DOMAIN v |-> IF x \in DOMAIN u THEN u[x] ELSE v[x]]

\* line 113: the fourth component of inspect.getargvalues(frame): the frame's
\* f_locals, which holds the arguments and every other local bound so far
LocalVars(f) == Merge(f.args, f.locals)

\* line 115: k not in set(ignore+['self']) and not k.startswith('_')
Kept(n, ign) == n \notin (ign \cup {"self"}) /\ ~StartsWithUnderscore(n)

\* lines 114-115: the dictionary comprehension
Hparams(lv, ign) == [x \in {n \in DOMAIN lv : Kept(n, ign)} |-> lv[x]]

\* the keys of dictionary d in the order in which they were bound
KeysInOrder(d) ==
    LET In(n) == n \in DOMAIN d IN SelectSeq(NameOrder, In)

\* lines 112-115: self.hparams = {...}
HPCollect ==
    /\ pc = "hp_call"
    /\ self' = SetAttr(self, "hparams", Hparams(LocalVars(frame), ignore))
    /\ todo' = KeysInOrder(Hparams(LocalVars(frame), ignore))
    /\ pc' = "hp_loop"
    /\ UNCHANGED <<classDict, instances, born, registered, result, frame, ignore>>
    /\ UNCHANGED <<call, ret, exc, sortLocals, ooVars>>

\* lines 116-117: setattr(self, k, v) for the next item of self.hparams
HPSetAttr ==
    /\ pc = "hp_loop"
    /\ todo # <<>>
    /\ self' = SetAttr(self, Head(todo), self.hparams[Head(todo)])
    /\ todo' = Tail(todo)
    /\ UNCHANGED <<classDict, instances, born, registered, result, frame, ignore>>
    /\ UNCHANGED <<call, ret, exc, pc, sortLocals, ooVars>>

\* the loop is exhausted and save_hyperparameters returns None
HPReturn ==
    /\ pc = "hp_loop"
    /\ todo = <<>>
    /\ pc' = "done"
    /\ ret' = "None"
    /\ UNCHANGED utilVars
    /\ UNCHANGED <<call, exc, sortLocals, ooVars>>

\* the frames of an __init__(self, a, b, c) or __init__(self, a, b, c, _d)
\* at its call of save_hyperparameters, with or without a local t bound
Frames ==
    {[args |-> Merge([x \in {"self"} |-> 0], Merge(abc, und)), locals |-> loc] :
        abc \in [{"a", "b", "c"} -> 1..MaxArg],
        und \in {<<>>, [x \in {"_d"} |-> 1]},
        loc \in {<<>>, [x \in {"t"} |-> 1]}}

\* lines 143-144, 148: B(a=.., b=.., c=..) calls self.save_hyperparameters(ignore=[..])
InitHP ==
    /\ frame \in Frames
    /\ ignore \in SUBSET {"a", "b", "c"}
    /\ self = <<>>
    /\ todo = <<>>
    /\ classDict = <<>> /\ instances = <<>> /\ born = <<>>
    /\ registered = <<>> /\ result = [exc |-> "no call"]
    /\ NoObjects
    /\ call = <<"save_hyperparameters">>
    /\ ret = "unset"
    /\ exc = "none"
    /\ pc = "hp_call"
    /\ A = <<>> /\ A0 = <<>> /\ nalloc = 0
    /\ i = 0 /\ j = 0 /\ k = 0 /\ key = 0
    /\ L = <<>> /\ R = <<>> /\ n1 = 0 /\ n2 = 0
    /\ p = 0 /\ q = 0 /\ r = 0
    /\ Ain = <<>>
    /\ taken = <<>>
    /\ stack = <<>>

NextHP ==
    \/ HPCollect
    \/ HPSetAttr
    \/ HPReturn

SpecHP == InitHP /\ [][NextHP]_vars

---------------------------------------------------------------------------
(* Properties of save_hyperparameters *)

\* the arguments that the claim says are saved
SavedArgs ==
    {n \in DOMAIN frame.args :
        n # "self" /\ n \notin ignore /\ ~StartsWithUnderscore(n)}

\* C12: after save_hyperparameters, for every argument k with value v that is
\* not self, not in ignore and does not start with an underscore,
\* self.k == v and self.hparams[k] == v; self.hparams has no other keys; an
\* argument listed in ignore is not set as an attribute.
C12_SavesExactlyTheArguments ==
    pc = "done" =>
        /\ \A n \in SavedArgs :
               /\ HasAttr(self, n)
               /\ self[n] = frame.args[n]
               /\ self.hparams[n] = frame.args[n]
        /\ DOMAIN self.hparams = SavedArgs
        /\ \A n \in ignore : ~HasAttr(self, n)

---------------------------------------------------------------------------
(* The loop invariant of insertion_sort *)

\* A[0..m] holds, in sorted order, the elements originally in A[0..m],
\* and A[m+1..] is as it was at the call
PrefixSortedSuffixUntouched(m) ==
    /\ Len(A) = Len(A0)
    /\ SortedRange(A, 0, m)
    /\ BagOf(Slice(A, 0, m)) = BagOf(Slice(A0, 0, m))
    /\ \A x \in (m + 1)..(Len(A) - 1) : PyGet(A, x) = PyGet(A0, x)

\* C13: at the start of the for-iteration with index j, A[0..j-1] is sorted
\* and holds the elements originally in A[0..j-1], and A[j..] is unchanged;
\* after the iteration the same holds for A[0..j] and A[j+1..].
C13_LoopInvariant ==
    /\ pc = "is_key" => (j >= 1 /\ j < Len(A) /\ PrefixSortedSuffixUntouched(j - 1))
    /\ (pc = "is_for" /\ j >= 1) => (j < Len(A) /\ PrefixSortedSuffixUntouched(j))

\* an iteration that moved elements has finished and part of the list is
\* still to be inserted
C13_Witness ==
    /\ pc = "is_for"
    /\ j >= 2
    /\ j + 1 < Len(A)
    /\ Slice(A, 0, j) # Slice(A0, 0, j)
    /\ PrefixSortedSuffixUntouched(j)

---------------------------------------------------------------------------
(* Index bounds and sentinels of merge *)

\* the main loop of merge has started and has not failed
InMainLoop == pc \in {"merge_loop", "done"}

\* C14: in merge(A, p, q, r) with p <= q < r and finite elements, i never
\* exceeds n1 = q-p+1 and j never exceeds n2 = r-q when L[i] and R[j] are
\* read, the sentinels L[n1] and R[n2] are never copied into A, and the loop
\* makes exactly r-p+1 writes, one to each index p..r.
C14_MergeIndicesInBounds ==
    /\ pc # "raised"
    /\ InMainLoop =>
           /\ n1 = q - p + 1 /\ n2 = r - q
           /\ i >= 0 /\ i <= n1 /\ j >= 0 /\ j <= n2
           /\ k + 1 < KStop(r) => (PyInRange(L, i) /\ PyInRange(R, j))
           /\ i + j = Len(taken)
           /\ k = p - 1 + Len(taken)
           /\ Len(taken) <= r - p + 1
           /\ \A x \in DOMAIN taken :
                  /\ taken[x] # <<"L", n1>>
                  /\ taken[x] # <<"R", n2>>
                  /\ PyGet(A, p + x - 1) = Source(taken[x])
                  /\ PyGet(A, p + x - 1) # Inf
           /\ \A x \in DOMAIN A : A[x] # Inf
    /\ pc = "done" => Len(taken) = r - p + 1

\* a finished merge whose left half ran out at least two writes before the
\* end, so that the sentinel L[n1] was compared with elements of R
C14_Witness ==
    /\ pc = "done"
    /\ Len(taken) = r - p + 1
    /\ i = n1 /\ j = n2
    /\ \E x \in DOMAIN taken :
           /\ taken[x] = <<"L", n1 - 1>>
           /\ x + 2 <= Len(taken)

---------------------------------------------------------------------------
(* Termination of merge_sort *)

\* the activation records that have passed the test of line 231
Split == {x \in DOMAIN stack : stack[x].at # "test"}

\* the midpoint computed in an activation record lies in p..r-1
MidInRange ==
    \A x \in Split :
        /\ stack[x].p < stack[x].r
        /\ stack[x].p <= stack[x].q
        /\ stack[x].q < stack[x].r

\* a recursive call is on the left or the right part of its caller's range,
\* which is strictly smaller than the caller's
CallsShrink ==
    \A x \in DOMAIN stack :
        x > 1 =>
            /\ (x - 1) \in Split
            /\ \/ stack[x].p = stack[x - 1].p /\ stack[x].r = stack[x - 1].q
               \/ stack[x].p = stack[x - 1].q + 1 /\ stack[x].r = stack[x - 1].r
            /\ stack[x].r - stack[x].p < stack[x - 1].r - stack[x - 1].p

\* merge is entered with p <= q < r inside the list and both halves sorted
MergePrecondition ==
    pc = "merge_enter" =>
        /\ 0 <= p /\ p <= q /\ q < r /\ r < Len(A)
        /\ SortedRange(A, p, q)
        /\ SortedRange(A, q + 1, r)

\* C15: merge_sort(A, p, r) terminates for 0 <= p, r < len(A): when p < r,
\* q = (p + r) // 2 satisfies p <= q < r, both recursive calls are on strictly
\* smaller ranges, and every call of merge has p <= q < r and sorted halves.
C15_MergeSortTerminates ==
    /\ [](pc # "raised" /\ MidInRange /\ CallsShrink /\ MergePrecondition)
    /\ <>(pc = "done")

\* a recursive call is about to merge two halves, the left one of at least
\* two elements that earlier calls have put in order
C15_Witness ==
    /\ pc = "merge_enter"
    /\ Len(stack) >= 2
    /\ p < q /\ q < r
    /\ ~SortedRange(A0, p, q)
    /\ SortedRange(A, p, q)
    /\ SortedRange(A, q + 1, r)


=============================================================================
